---------------------------- MODULE Spec2Model ----------------------------
(***************************************************************************)
(* A model of the language_drift research pipeline:                        *)
(*   - ld_research/text/iwslt.py      IWSLTDataset, IWSLTDataloader        *)
(*   - ld_research/model/agent.py     Agent.forward                        *)
(*   - ld_research/text/preprocess.py the corpus preparation operations    *)
(* Three specifications share the module: SpecBatch (collation and the     *)
(* forward pass), SpecData (the dataset over two text files) and SpecPipe  *)
(* (the preprocessing operations over a filesystem).                       *)
(*                                                                         *)
(* Python values: a list or a tensor row is a sequence, a 2-D tensor is a  *)
(* sequence of rows, a str is a TLA+ string, and an optional value is a    *)
(* sequence of length 0 (None) or 1.                                       *)
(***************************************************************************)
EXTENDS Integers, Sequences, FiniteSets, TLC

VARIABLES
    batch,      \* SpecBatch: the IWSLTExamples fetched for the next batch
    ex,         \* SpecBatch: the collated IWSLTExample (optional)
    fwd,        \* SpecBatch: the arguments of the last Agent.forward call (optional)
    out,        \* SpecBatch: the outcome of the last Agent.forward call (optional)
    src_file,   \* SpecData: the text of the source file
    tgt_file,   \* SpecData: the text of the target file
    ds,         \* SpecData: the IWSLTDataset built over them (optional)
    item,       \* SpecData: the last dataset[i] result (optional)
    fs,         \* SpecPipe: the set of paths that exist
    last,       \* SpecPipe: the record of the last operation invoked
    done,       \* SpecPipe: the kinds of stage steps that have run so far
    invoked,    \* SpecPipe: the operations invoked so far
    budget      \* SpecPipe: tool failures the environment may still inject

batchVars == <<batch, ex, fwd, out>>
dataVars == <<src_file, tgt_file, ds, item>>
pipeVars == <<fs, last, done, invoked, budget>>
vars == <<batch, ex, fwd, out, src_file, tgt_file, ds, item,
          fs, last, done, invoked, budget>>

(***************************************************************************)
(* Bounds of the model.                                                    *)
(***************************************************************************)
MaxBatch == 2       \* examples per batch
MaxSentLen == 3     \* tokens per sentence
MaxDirectLen == 3   \* width of a target tensor passed to forward directly
MaxFileLen == 3     \* characters per text file
MaxFail == 1        \* tool failures injected per run

(***************************************************************************)
(* Optional values and small helpers.                                      *)
(***************************************************************************)
None == <<>>
Some(x) == <<x>>

Max(a, b) == IF a >= b THEN a ELSE b

RECURSIVE MaxOf(_)
MaxOf(s) == IF Len(s) = 0 THEN 0 ELSE Max(Head(s), MaxOf(Tail(s)))

Repeat(x, n) == [k \in 1..n |-> x]

(***************************************************************************)
(* Settings and Vocab (ld_research.settings, ld_research.text.Vocab).      *)
(***************************************************************************)
BOS_WORD == "<s>"
EOS_WORD == "</s>"
UNK_WORD == "<unk>"

\* The token table of a Vocab: special tokens at the low indices.
VocabTable == <<"<unk>", "<s>", "</s>", "a", "b">>

VocabLen == Len(VocabTable)

stoi(tok) ==
    IF \E k \in 1..Len(VocabTable) : VocabTable[k] = tok
    THEN (CHOOSE k \in 1..Len(VocabTable) : VocabTable[k] = tok) - 1
    ELSE (CHOOSE k \in 1..Len(VocabTable) : VocabTable[k] = UNK_WORD) - 1

\* Vocab.numerize: every token of a rectangular batch replaced by its index.
numerize(rows) == [i \in 1..Len(rows) |-> [j \in 1..Len(rows[i]) |-> stoi(rows[i][j])]]

\* The corpus: a sentence of n tokens is the first n words of its side's
\* word stream; "zz" is out of vocabulary.
SrcWords == <<"a", "zz", "b">>
TgtWords == <<"zz", "b", "a">>

Sentence(words, n) == [k \in 1..n |-> words[((k - 1) % Len(words)) + 1]]

Sentences(words, n) == {Sentence(words, k) : k \in 0..n}

(***************************************************************************)
(* ld_research.text.utils.pad_to_same_length: init_token and end_token are *)
(* optional.                                                               *)
(***************************************************************************)
pad_to_same_length(sentences, pad_token, init_token, end_token) ==
    LET wrapped == [i \in 1..Len(sentences) |-> init_token \o sentences[i] \o end_token]
        lengths == [i \in 1..Len(sentences) |-> Len(wrapped[i])]
        width == MaxOf(lengths)
    IN  [rows |-> [i \in 1..Len(sentences) |->
                      wrapped[i] \o Repeat(pad_token, width - lengths[i])],
         lengths |-> lengths]

(***************************************************************************)
(* IWSLTDataloader.collate_fn.                                             *)
(***************************************************************************)
collate_src_init_bos == Some(BOS_WORD)

collate_src_init == None

collate_fn(b) ==
    LET s == pad_to_same_length([i \in 1..Len(b) |-> b[i].src],
                                EOS_WORD, collate_src_init, Some(EOS_WORD))
        t == pad_to_same_length([i \in 1..Len(b) |-> b[i].tgt],
                                EOS_WORD, Some(BOS_WORD), Some(EOS_WORD))
    IN  [src |-> numerize(s.rows), src_lengths |-> s.lengths,
         tgt |-> numerize(t.rows), tgt_lengths |-> t.lengths]

(***************************************************************************)
(* ld_research.model.utils.sequence_mask and the decoder's shape contract. *)
(***************************************************************************)
sequence_mask(lengths, max_len) ==
    [i \in 1..Len(lengths) |-> [j \in 1..max_len |-> IF j - 1 < lengths[i] THEN 1 ELSE 0]]

Width(t) == Len(t[1])

\* GRUDecoder.teacher_forcing: logits [bsz, len(targets), tgt_vocab],
\* alignments [bsz, len(targets), src_len].
teacher_forcing_shapes(targets, src) ==
    [logits |-> <<Len(targets), Width(targets), VocabLen>>,
     alignments |-> <<Len(targets), Width(targets), Width(src)>>]

(***************************************************************************)
(* Agent.forward.                                                          *)
(***************************************************************************)
\* tgt[:, :-1]
tgt_in_of(tgt) == [i \in 1..Len(tgt) |-> SubSeq(tgt[i], 1, Len(tgt[i]) - 1)]

tgt_out_unshifted(tgt) == tgt

\* tgt[:, 1:]
tgt_out_of(tgt) == [i \in 1..Len(tgt) |-> SubSeq(tgt[i], 2, Len(tgt[i]))]

mask_lengths_unshifted(tgt_lengths) == tgt_lengths

\* tgt_lengths - 1
mask_lengths(tgt_lengths) == [i \in 1..Len(tgt_lengths) |-> tgt_lengths[i] - 1]

forward(src, tgt, tgt_lengths, with_align) ==
    LET tgt_in == tgt_in_of(tgt)
        shapes == teacher_forcing_shapes(tgt_in, src)
        tgt_out == tgt_out_of(tgt)
        masks == IF tgt_lengths = None THEN None
                 ELSE Some(sequence_mask(mask_lengths(tgt_lengths[1]), shapes.logits[2]))
    IN  IF masks = None
        THEN \* masks.float() on None
             [status |-> "raised", error |-> "AttributeError", dec_in |-> tgt_in,
              outputs |-> <<>>]
        ELSE [status |-> "returned", error |-> "", dec_in |-> tgt_in,
              outputs |-> IF with_align
                          THEN <<shapes.logits, tgt_out, masks, shapes.alignments>>
                          ELSE <<shapes.logits, tgt_out, masks>>]

(***************************************************************************)
(* SpecBatch: examples are fetched, collated and passed to the model.      *)
(***************************************************************************)
RawExamples ==
    {[src |-> s, tgt |-> t, src_lengths |-> 0, tgt_lengths |-> 0] :
        s \in Sentences(SrcWords, MaxSentLen), t \in Sentences(TgtWords, MaxSentLen)}

\* The DataLoader fetches dataset[i] for the batch being assembled.
Fetch ==
    /\ ex = None
    /\ fwd = None
    /\ Len(batch) < MaxBatch
    /\ \E e \in RawExamples : batch' = Append(batch, e)
    /\ UNCHANGED <<ex, fwd, out>>

Collate ==
    /\ ex = None
    /\ fwd = None
    /\ Len(batch) >= 1
    /\ ex' = Some(collate_fn(batch))
    /\ UNCHANGED <<batch, fwd, out>>

\* The training step: forward on the collated batch, with or without lengths.
Forward ==
    /\ ex # None
    /\ \E with_lengths \in BOOLEAN, with_align \in BOOLEAN :
          LET e == ex[1]
              tl == IF with_lengths THEN Some(e.tgt_lengths) ELSE None
          IN  /\ fwd' = Some([src |-> e.src, tgt |-> e.tgt, tgt_lengths |-> tl,
                               with_align |-> with_align, collated |-> TRUE])
              /\ out' = Some(forward(e.src, e.tgt, tl, with_align))
    /\ UNCHANGED <<batch, ex>>

\* forward called directly on tensors of any shape [B, Lt], Lt >= 1, with
\* any lengths.
ForwardDirect ==
    /\ batch = <<>>
    /\ fwd = None
    /\ \E B \in 1..MaxBatch, Lt \in 1..MaxDirectLen, with_align \in BOOLEAN :
       \E tl \in {None} \cup {Some(l) : l \in [1..B -> 0..(Lt + 1)]} :
          LET src == Repeat(<<stoi(EOS_WORD)>>, B)
              tgt == Repeat([j \in 1..Lt |-> IF j = 1 THEN stoi(BOS_WORD) ELSE stoi("a")], B)
          IN  /\ fwd' = Some([src |-> src, tgt |-> tgt, tgt_lengths |-> tl,
                               with_align |-> with_align, collated |-> FALSE])
              /\ out' = Some(forward(src, tgt, tl, with_align))
    /\ UNCHANGED <<batch, ex>>

InitBatchVars ==
    /\ batch = <<>>
    /\ ex = None
    /\ fwd = None
    /\ out = None

InitDataVars ==
    /\ src_file = ""
    /\ tgt_file = ""
    /\ ds = None
    /\ item = None

InitPipeVars ==
    /\ fs = {}
    /\ last = None
    /\ done = {}
    /\ invoked = {}
    /\ budget = 0

InitBatch == InitBatchVars /\ InitDataVars /\ InitPipeVars

NextBatch ==
    \/ Fetch /\ UNCHANGED dataVars /\ UNCHANGED pipeVars
    \/ Collate /\ UNCHANGED dataVars /\ UNCHANGED pipeVars
    \/ Forward /\ UNCHANGED dataVars /\ UNCHANGED pipeVars
    \/ ForwardDirect /\ UNCHANGED dataVars /\ UNCHANGED pipeVars

SpecBatch == InitBatch /\ [][NextBatch]_vars


(***************************************************************************)
(* IWSLTDataset over the two text files of one split.                      *)
(***************************************************************************)
Chars == {"a", " ", "\n"}

RECURSIVE Texts(_)
Texts(n) == IF n = 0 THEN {""}
            ELSE LET shorter == Texts(n - 1)
                 IN  shorter \cup {s \o c : s \in shorter, c \in Chars}

CharAt(s, k) == SubSeq(s, k, k)

IsSpace(c) == c \in {" ", "\n"}

\* file.readlines(): the lines of the text, each with its terminator.
RECURSIVE readlines_from(_, _, _)
readlines_from(text, start, k) ==
    IF k > Len(text)
    THEN IF start > Len(text) THEN <<>> ELSE <<SubSeq(text, start, Len(text))>>
    ELSE IF CharAt(text, k) = "\n"
         THEN <<SubSeq(text, start, k)>> \o readlines_from(text, k + 1, k + 1)
         ELSE readlines_from(text, start, k + 1)

readlines(text) == readlines_from(text, 1, 1)

\* str.rstrip('\n')
RECURSIVE rstrip_newline(_)
rstrip_newline(s) ==
    IF Len(s) > 0 /\ CharAt(s, Len(s)) = "\n"
    THEN rstrip_newline(SubSeq(s, 1, Len(s) - 1))
    ELSE s

\* str.split(): the maximal runs of non-whitespace characters.
RECURSIVE split_from(_, _, _)
split_from(s, start, k) ==
    IF k > Len(s)
    THEN IF start < k THEN <<SubSeq(s, start, k - 1)>> ELSE <<>>
    ELSE IF IsSpace(CharAt(s, k))
         THEN (IF start < k THEN <<SubSeq(s, start, k - 1)>> ELSE <<>>)
              \o split_from(s, k + 1, k + 1)
         ELSE split_from(s, start, k + 1)

split(s) == split_from(s, 1, 1)

Modes == {"train", "test", "valid"}

paired_unchecked(src_text, tgt_text) == TRUE

\* assert len(self.src_text) == len(self.tgt_text)
paired(src_text, tgt_text) == Len(src_text) = Len(tgt_text)

\* IWSLTDataset.__init__ over the texts get_txt read.
dataset_init(src_txt, tgt_txt, mode) ==
    IF mode \notin Modes
    THEN [status |-> "raised", error |-> "Invalid mode", mode |-> mode,
          src_text |-> <<>>, tgt_text |-> <<>>]
    ELSE LET src_contents == readlines(src_txt)
             tgt_contents == readlines(tgt_txt)
         IN  IF paired(src_contents, tgt_contents)
             THEN [status |-> "built", error |-> "", mode |-> mode,
                   src_text |-> src_contents, tgt_text |-> tgt_contents]
             ELSE [status |-> "raised", error |-> "Not paired dataset, something is wrong",
                   mode |-> mode, src_text |-> <<>>, tgt_text |-> <<>>]

\* IWSLTDataset.__len__
dataset_len(d) == Len(d.src_text)

getitem_src_for_both(d, index) ==
    [index |-> index,
     src |-> split(rstrip_newline(d.src_text[index + 1])),
     tgt |-> split(rstrip_newline(d.src_text[index + 1])),
     src_lengths |-> 0, tgt_lengths |-> 0]

\* IWSLTDataset.__getitem__
getitem(d, index) ==
    [index |-> index,
     src |-> split(rstrip_newline(d.src_text[index + 1])),
     tgt |-> split(rstrip_newline(d.tgt_text[index + 1])),
     src_lengths |-> 0, tgt_lengths |-> 0]

Construct ==
    /\ ds = None
    /\ \E mode \in Modes \cup {"dev"} :
          ds' = Some(dataset_init(src_file, tgt_file, mode))
    /\ UNCHANGED <<src_file, tgt_file, item>>

GetItem ==
    /\ ds # None
    /\ ds[1].status = "built"
    /\ \E index \in 0..(dataset_len(ds[1]) - 1) :
          item' = Some(getitem(ds[1], index))
    /\ UNCHANGED <<src_file, tgt_file, ds>>

InitData ==
    /\ src_file \in Texts(MaxFileLen)
    /\ tgt_file \in Texts(MaxFileLen)
    /\ ds = None
    /\ item = None
    /\ InitBatchVars
    /\ InitPipeVars

NextData ==
    \/ Construct /\ UNCHANGED batchVars /\ UNCHANGED pipeVars
    \/ GetItem /\ UNCHANGED batchVars /\ UNCHANGED pipeVars

SpecData == InitData /\ [][NextData]_vars

(***************************************************************************)
(* Claims about the dataset (SpecData).  The reference below reads a text  *)
(* by positions: a line ends at a newline or at the end of the text, a     *)
(* token is a maximal run of non-whitespace characters.                    *)
(***************************************************************************)
Newlines(text) == {k \in 1..Len(text) : CharAt(text, k) = "\n"}

LineCount(text) ==
    Cardinality(Newlines(text))
    + (IF Len(text) > 0 /\ CharAt(text, Len(text)) # "\n" THEN 1 ELSE 0)

\* The first position of line i (0-based): after the i-th newline.
LineStart(text, i) ==
    IF i = 0 THEN 1
    ELSE (CHOOSE k \in Newlines(text) :
             Cardinality({m \in Newlines(text) : m <= k}) = i) + 1

\* The last position of line i before its newline.
LineEnd(text, i) ==
    IF \E k \in Newlines(text) : k >= LineStart(text, i)
    THEN (CHOOSE k \in Newlines(text) :
             /\ k >= LineStart(text, i)
             /\ \A m \in Newlines(text) : m >= LineStart(text, i) => k <= m) - 1
    ELSE Len(text)

TokenStarts(text, lo, hi) ==
    {k \in lo..hi : /\ ~IsSpace(CharAt(text, k))
                    /\ (k = lo \/ IsSpace(CharAt(text, k - 1)))}

TokenAt(text, k, hi) ==
    SubSeq(text, k, CHOOSE e \in k..hi :
                       /\ \A m \in k..e : ~IsSpace(CharAt(text, m))
                       /\ (e = hi \/ IsSpace(CharAt(text, e + 1))))

\* The tokens of line i (0-based) of the text, in order.
LineTokens(text, i) ==
    LET lo == LineStart(text, i)
        hi == LineEnd(text, i)
        starts == TokenStarts(text, lo, hi)
    IN  [n \in 1..Cardinality(starts) |->
            TokenAt(text, CHOOSE k \in starts :
                              Cardinality({m \in starts : m <= k}) = n, hi)]

\* C5: construction fails whenever the two files' line counts differ; when
\* they are equal it succeeds, len(dataset) is the line count, and dataset[i]
\* holds the whitespace-split tokens of line i of each file with both
\* lengths 0.
C5_DatasetPairing ==
    /\ (ds # None /\ ds[1].mode \in Modes) =>
          /\ (ds[1].status = "raised") <=> (LineCount(src_file) # LineCount(tgt_file))
          /\ (ds[1].status = "built") <=> (LineCount(src_file) = LineCount(tgt_file))
          /\ ds[1].status = "built" => dataset_len(ds[1]) = LineCount(src_file)
    /\ item # None =>
          /\ item[1].src = LineTokens(src_file, item[1].index)
          /\ item[1].tgt = LineTokens(tgt_file, item[1].index)
          /\ item[1].src_lengths = 0
          /\ item[1].tgt_lengths = 0

\* C5 witness: the second example of a two-line dataset whose source and
\* target lines differ.
C5_Witness ==
    /\ item # None
    /\ item[1].index = 1
    /\ item[1].src # item[1].tgt
    /\ item[1].src # <<>>

(***************************************************************************)
(* Preprocessing: settings, strings and paths.                             *)
(***************************************************************************)
ROOT_CORPUS_DIR == "corpus"
ROOT_TOK_DIR == "tok"
ROOT_BPE_DIR == "bpe"
FR == ".fr"
EN == ".en"
DE == ".de"

\* torchtext.datasets.IWSLT: name, and base_dirname = '{}-{}'
IWSLT_name == "iwslt"

IWSLT_base_dirname_format(a, b) == a \o "-" \o b

\* os.path.join on relative components
join(a, b) == a \o "/" \o b

\* s[1:]
PyTail(s) == IF Len(s) = 0 THEN s ELSE SubSeq(s, 2, Len(s))

\* s[-3:]
PyLast3(s) == SubSeq(s, Max(1, Len(s) - 2), Len(s))

\* The language pairs the pipeline is run for.
Pairs == {<<FR, EN>>, <<EN, DE>>}

\* itertools.product of two lists, in its order.
Product(xs, ys) ==
    [k \in 1..(Len(xs) * Len(ys)) |->
        <<xs[((k - 1) \div Len(ys)) + 1], ys[((k - 1) % Len(ys)) + 1]>>]

(***************************************************************************)
(* The filesystem: the set of paths that exist.                            *)
(***************************************************************************)
exists(f, p) == p \in f

\* A path and the directories above it.
Ancestors(p) ==
    {p} \cup {SubSeq(p, 1, k - 1) : k \in {m \in 1..Len(p) : CharAt(p, m) = "/"}}

\* os.makedirs
makedirs(f, p) == f \cup Ancestors(p)

(***************************************************************************)
(* A running operation: the filesystem, the tool calls made so far, and    *)
(* whether an exception is propagating.  F is the set of call numbers at   *)
(* which the environment makes the tool fail.                              *)
(***************************************************************************)
Start(f) == [fs |-> f, calls |-> <<>>, ret |-> "running"]

Entry(tool, loop, pos, of, reads, writes, ok, error) ==
    [tool |-> tool, loop |-> loop, pos |-> pos, of |-> of,
     reads |-> reads, writes |-> writes, ok |-> ok, error |-> error]

call_status_checked(ok) == ~ok

\* subprocess.call returns the exit status, which no caller reads.
call_status_aborts(ok) == FALSE

\* subprocess.call(cmd): the tool succeeds when its inputs exist and the
\* environment does not fail it.
call(st, F, tool, loop, pos, of, reads, writes) ==
    LET ok == reads \subseteq st.fs /\ (Len(st.calls) + 1) \notin F
    IN  [fs |-> IF ok THEN st.fs \cup writes ELSE st.fs,
         calls |-> Append(st.calls,
                          Entry(tool, loop, pos, of, reads, writes, ok,
                                IF ok THEN "" ELSE "exit status")),
         ret |-> IF call_status_aborts(ok) THEN "raised" ELSE st.ret]

\* A library function called in the process: its failure is an exception.
python_call(st, F, tool, loop, pos, of, reads, writes) ==
    LET ok == reads \subseteq st.fs /\ (Len(st.calls) + 1) \notin F
    IN  [fs |-> IF ok THEN st.fs \cup writes ELSE st.fs,
         calls |-> Append(st.calls,
                          Entry(tool, loop, pos, of, reads, writes, ok,
                                IF ok THEN "" ELSE "exception")),
         ret |-> IF ok THEN st.ret ELSE "raised"]

(***************************************************************************)
(* IWSLT: download and tokenize.                                           *)
(***************************************************************************)
IWSLT_prefixs == <<"train", "IWSLT16.TED.tst2013", "IWSLT16.TED.tst2014">>

IWSLT_dirname(src_lang, tgt_lang) ==
    IWSLT_base_dirname_format(PyTail(src_lang), PyTail(tgt_lang))

IWSLT_suffixs(src_lang, tgt_lang) ==
    <<PyTail(src_lang) \o "-" \o PyTail(tgt_lang) \o src_lang,
      PyTail(src_lang) \o "-" \o PyTail(tgt_lang) \o tgt_lang>>

IWSLT_corpus_dir(src_lang, tgt_lang) ==
    join(join(ROOT_CORPUS_DIR, IWSLT_name), IWSLT_dirname(src_lang, tgt_lang))

\* The files IWSLT.download and IWSLT.clean leave in the corpus directory.
IWSLT_corpus_files(src_lang, tgt_lang) ==
    LET names == Product(IWSLT_prefixs, IWSLT_suffixs(src_lang, tgt_lang))
    IN  {join(IWSLT_corpus_dir(src_lang, tgt_lang), names[k][1] \o "." \o names[k][2]) :
            k \in 1..Len(names)}

IWSLT_download_helper(st, F, src_lang, tgt_lang) ==
    LET corpus_dir == IWSLT_corpus_dir(src_lang, tgt_lang)
    IN  IF st.ret = "raised" THEN st
        ELSE IF exists(st.fs, corpus_dir) THEN st
        ELSE python_call(st, F, "IWSLT.download",
                         "download " \o IWSLT_dirname(src_lang, tgt_lang), 1, 1, {},
                         Ancestors(corpus_dir) \cup IWSLT_corpus_files(src_lang, tgt_lang))

\* _tokenize: out_file is opened for writing, then in_file for reading, then
\* every line goes through the tokenizer.
tokenize(st, F, in_file, out_file, loop, pos, of) ==
    LET opened == [st EXCEPT !.fs = st.fs \cup {out_file}]
    IN  IF ~exists(opened.fs, in_file)
        THEN [opened EXCEPT
                 !.calls = Append(st.calls,
                                  Entry("open", loop, pos, of, {in_file}, {out_file},
                                        FALSE, "FileNotFoundError")),
                 !.ret = "raised"]
        ELSE python_call(opened, F, "tokenizer", loop, pos, of, {in_file}, {out_file})

RECURSIVE tokenize_loop(_, _, _, _, _)
tokenize_loop(st, F, jobs, loop, i) ==
    IF i > Len(jobs) \/ st.ret = "raised" THEN st
    ELSE tokenize_loop(tokenize(st, F, jobs[i].in_file, jobs[i].out_file,
                                loop, i, Len(jobs)),
                       F, jobs, loop, i + 1)

IWSLT_token_dir(src_lang, tgt_lang) ==
    join(join(ROOT_TOK_DIR, IWSLT_name), IWSLT_dirname(src_lang, tgt_lang))

tokenize_IWSLT_jobs(src_lang, tgt_lang) ==
    LET names == Product(IWSLT_prefixs, IWSLT_suffixs(src_lang, tgt_lang))
    IN  [k \in 1..Len(names) |->
            [in_file |-> join(IWSLT_corpus_dir(src_lang, tgt_lang),
                              names[k][1] \o "." \o names[k][2]),
             out_file |-> join(IWSLT_token_dir(src_lang, tgt_lang),
                               names[k][1] \o "." \o names[k][2])]]

tokenize_IWSLT_helper(st, F, src_lang, tgt_lang) ==
    LET token_dir == IWSLT_token_dir(src_lang, tgt_lang)
    IN  IF st.ret = "raised" THEN st
        ELSE IF exists(st.fs, token_dir) THEN st
        ELSE tokenize_loop([st EXCEPT !.fs = makedirs(st.fs, token_dir)], F,
                           tokenize_IWSLT_jobs(src_lang, tgt_lang),
                           "tokenize " \o IWSLT_dirname(src_lang, tgt_lang), 1)

prepare_IWSLT(st, F) ==
    tokenize_IWSLT_helper(
        tokenize_IWSLT_helper(
            IWSLT_download_helper(IWSLT_download_helper(st, F, FR, EN), F, EN, DE),
            F, FR, EN),
        F, EN, DE)

(***************************************************************************)
(* Multi30k: download and tokenize.                                        *)
(***************************************************************************)
multi30k_prefixs == <<"train", "val", "test_2017_flickr">>

multi30k_langs == <<FR, EN, DE>>

multi30k_corpus_dir == join(ROOT_CORPUS_DIR, "multi30k")

multi30k_tok_dir == join(ROOT_TOK_DIR, "multi30k")

RECURSIVE download_multi30k_loop(_, _, _, _)
download_multi30k_loop(st, F, names, i) ==
    IF i > Len(names) \/ st.ret = "raised" THEN st
    ELSE LET gz == join(multi30k_corpus_dir, names[i][1] \o names[i][2] \o ".gz")
             raw == join(multi30k_corpus_dir, names[i][1] \o names[i][2])
             fetched == call(st, F, "wget", "download multi30k", i, Len(names), {},
                             Ancestors(multi30k_corpus_dir) \cup {gz})
             unzipped == IF fetched.ret = "raised" THEN fetched
                         ELSE call(fetched, F, "gunzip", "download multi30k", i,
                                   Len(names), {gz}, {raw})
         IN  download_multi30k_loop(unzipped, F, names, i + 1)

download_multi30k(st, F) ==
    IF st.ret = "raised" THEN st
    ELSE IF exists(st.fs, multi30k_corpus_dir) THEN st
    ELSE download_multi30k_loop(st, F, Product(multi30k_prefixs, multi30k_langs), 1)

tokenize_multi30k_jobs ==
    LET names == Product(multi30k_prefixs, multi30k_langs)
    IN  [k \in 1..Len(names) |->
            [in_file |-> join(multi30k_corpus_dir, names[k][1] \o names[k][2]),
             out_file |-> join(multi30k_tok_dir, names[k][1] \o names[k][2])]]

prepare_multi30k(st, F) ==
    LET downloaded == download_multi30k(st, F)
    IN  IF downloaded.ret = "raised" THEN downloaded
        ELSE IF exists(downloaded.fs, multi30k_tok_dir) THEN downloaded
        ELSE tokenize_loop([downloaded EXCEPT
                               !.fs = makedirs(downloaded.fs, multi30k_tok_dir)],
                           F, tokenize_multi30k_jobs, "tokenize multi30k", 1)

(***************************************************************************)
(* BPE: learn and apply.                                                   *)
(***************************************************************************)
bpe_codes == join(ROOT_BPE_DIR, "bpe.codes")

\* lang_files, in the order of its keys
learn_lang_files ==
    <<[lang |-> EN, file |-> join(join(join(ROOT_TOK_DIR, "iwslt"), "en-de"), "train.en-de.en")],
      [lang |-> DE, file |-> join(join(join(ROOT_TOK_DIR, "iwslt"), "en-de"), "train.en-de.de")],
      [lang |-> FR, file |-> join(join(join(ROOT_TOK_DIR, "iwslt"), "fr-en"), "train.fr-en.fr")]>>

\* --write-vocabulary: one file per key of lang_files
learn_vocab_files ==
    {join(ROOT_BPE_DIR, "vocab" \o learn_lang_files[k].lang) : k \in 1..Len(learn_lang_files)}

codes_never_learned(f) == FALSE

\* os.path.exists(join(ROOT_BPE_DIR, 'bpe.codes'))
codes_learned(f) == exists(f, bpe_codes)

learn_bpe(st, F) ==
    LET rooted == IF ~exists(st.fs, ROOT_BPE_DIR)
                  THEN [st EXCEPT !.fs = makedirs(st.fs, ROOT_BPE_DIR)]
                  ELSE st
    IN  IF ~codes_learned(rooted.fs)
        THEN call(rooted, F, "learn_joint_bpe", "learn", 1, 1,
                  {learn_lang_files[k].file : k \in 1..Len(learn_lang_files)},
                  {bpe_codes} \cup learn_vocab_files)
        ELSE rooted

codes_not_asserted(f) == TRUE

\* assert os.path.exists(codes_file)
codes_asserted(f) == exists(f, bpe_codes)

apply_bpe_vocab_file(lang) == join(ROOT_BPE_DIR, "vocab" \o lang)

apply_bpe(st, F, in_file, out_file, lang, loop, pos, of) ==
    IF ~codes_asserted(st.fs)
    THEN [st EXCEPT !.ret = "raised"]
    ELSE call(st, F, "apply_bpe", loop, pos, of,
              {bpe_codes, apply_bpe_vocab_file(lang), in_file}, {out_file})

RECURSIVE apply_bpe_loop(_, _, _, _, _)
apply_bpe_loop(st, F, jobs, loop, i) ==
    IF i > Len(jobs) \/ st.ret = "raised" THEN st
    ELSE apply_bpe_loop(apply_bpe(st, F, jobs[i].in_file, jobs[i].out_file,
                                  jobs[i].lang, loop, i, Len(jobs)),
                        F, jobs, loop, i + 1)

IWSLT_bpe_dir(src_lang, tgt_lang) ==
    join(join(ROOT_BPE_DIR, IWSLT_name), IWSLT_dirname(src_lang, tgt_lang))

whole_suffix(suffix) == suffix

\* lang=suffix[-3:]
suffix_lang(suffix) == PyLast3(suffix)

apply_bpe_iwslt_jobs(src_lang, tgt_lang) ==
    LET names == Product(IWSLT_prefixs, IWSLT_suffixs(src_lang, tgt_lang))
    IN  [k \in 1..Len(names) |->
            [in_file |-> join(IWSLT_token_dir(src_lang, tgt_lang),
                              names[k][1] \o "." \o names[k][2]),
             out_file |-> join(IWSLT_bpe_dir(src_lang, tgt_lang),
                               names[k][1] \o "." \o names[k][2]),
             lang |-> suffix_lang(names[k][2])]]

apply_bpe_iwslt(st, F, src_lang, tgt_lang) ==
    LET bpe_dir == IWSLT_bpe_dir(src_lang, tgt_lang)
    IN  IF exists(st.fs, bpe_dir) THEN st
        ELSE apply_bpe_loop([st EXCEPT !.fs = makedirs(st.fs, bpe_dir)], F,
                            apply_bpe_iwslt_jobs(src_lang, tgt_lang),
                            "apply " \o IWSLT_dirname(src_lang, tgt_lang), 1)

multi30k_bpe_dir == join(ROOT_BPE_DIR, "multi30k")

apply_bpe_multi30k_jobs ==
    LET names == Product(multi30k_prefixs, multi30k_langs)
    IN  [k \in 1..Len(names) |->
            [in_file |-> join(multi30k_tok_dir, names[k][1] \o names[k][2]),
             out_file |-> join(multi30k_bpe_dir, names[k][1] \o names[k][2]),
             lang |-> names[k][2]]]

apply_bpe_multi30k(st, F) ==
    IF exists(st.fs, multi30k_bpe_dir) THEN st
    ELSE apply_bpe_loop([st EXCEPT !.fs = makedirs(st.fs, multi30k_bpe_dir)], F,
                        apply_bpe_multi30k_jobs, "apply multi30k", 1)

(***************************************************************************)
(* IWSLTDataset.__init__ on the filesystem: the two Vocabs, then get_txt.  *)
(***************************************************************************)
dataset_prefix(mode) ==
    CASE mode = "train" -> "train"
      [] mode = "valid" -> "IWSLT16.TED.tst2013"
      [] mode = "test" -> "IWSLT16.TED.tst2014"

\* Vocab(lang): the vocabulary file BPE learning wrote for the language.
Vocab_file(lang) == join(ROOT_BPE_DIR, "vocab" \o lang)

get_txt_files(src_lang, tgt_lang, mode) ==
    LET bpe_corpus_dir == join(join(ROOT_BPE_DIR, "iwslt"),
                               PyTail(src_lang) \o "-" \o PyTail(tgt_lang))
        base_text_name == "." \o PyTail(src_lang) \o "-" \o PyTail(tgt_lang)
    IN  <<join(bpe_corpus_dir, dataset_prefix(mode) \o base_text_name \o src_lang),
          join(bpe_corpus_dir, dataset_prefix(mode) \o base_text_name \o tgt_lang)>>

dataset_loop(src_lang, tgt_lang) == "dataset " \o IWSLT_dirname(src_lang, tgt_lang)

open_dataset(st, F, src_lang, tgt_lang, mode) ==
    LET vocabs == python_call(st, {}, "Vocab", dataset_loop(src_lang, tgt_lang), 1, 1,
                              {Vocab_file(src_lang), Vocab_file(tgt_lang)}, {})
        files == get_txt_files(src_lang, tgt_lang, mode)
    IN  IF vocabs.ret = "raised" THEN vocabs
        ELSE IF {files[1], files[2]} \subseteq vocabs.fs
             THEN [vocabs EXCEPT
                      !.calls = Append(vocabs.calls,
                                       Entry("open", dataset_loop(src_lang, tgt_lang), 1, 1,
                                             {files[1], files[2]}, {}, TRUE, ""))]
             ELSE [vocabs EXCEPT
                      !.calls = Append(vocabs.calls,
                                       Entry("open", dataset_loop(src_lang, tgt_lang), 1, 1,
                                             {files[1], files[2]}, {}, FALSE,
                                             "FileNotFoundError")),
                      !.ret = "raised"]

(***************************************************************************)
(* SpecPipe: the operations are invoked one at a time, in any order.       *)
(***************************************************************************)
RECURSIVE FailSets(_, _)
FailSets(S, n) ==
    IF n = 0 THEN {{}}
    ELSE LET fewer == FailSets(S, n - 1)
         IN  fewer \cup {f \cup {x} : f \in fewer, x \in S}

\* The calls a failure can strike: those the operation makes when no tool
\* fails (a failure never adds a call).
CallSlots(plain) == 1..Len(plain.calls)

Injected(result, F) ==
    /\ F \subseteq 1..Len(result.calls)
    /\ \A k \in F : result.calls[k].error \in {"exit status", "exception"}
    /\ \A k \in F : result.calls[k].reads \subseteq fs \cup
                       UNION {result.calls[j].writes : j \in 1..(k - 1)}

Outcome(op, result) ==
    [op |-> op,
     ret |-> IF result.ret = "raised" THEN "raised" ELSE "returned",
     calls |-> result.calls,
     second |-> op \in invoked,
     changed |-> result.fs # fs]

\* A preprocessing operation ran to its return or to an exception.
Complete(op, result, F) ==
    /\ fs' = result.fs
    /\ last' = Some(Outcome(op, result))
    /\ done' = done \cup {result.calls[k].loop : k \in 1..Len(result.calls)}
    /\ invoked' = invoked \cup {op}
    /\ budget' = budget - Cardinality(F)

PrepareIWSLT ==
    \E F \in FailSets(CallSlots(prepare_IWSLT(Start(fs), {})), budget) :
        LET result == prepare_IWSLT(Start(fs), F)
        IN  Injected(result, F) /\ Complete("prepare_IWSLT", result, F)

PrepareMulti30k ==
    \E F \in FailSets(CallSlots(prepare_multi30k(Start(fs), {})), budget) :
        LET result == prepare_multi30k(Start(fs), F)
        IN  Injected(result, F) /\ Complete("prepare_multi30k", result, F)

LearnBpe ==
    \E F \in FailSets(CallSlots(learn_bpe(Start(fs), {})), budget) :
        LET result == learn_bpe(Start(fs), F)
        IN  Injected(result, F) /\ Complete("learn_bpe", result, F)

ApplyBpeIwslt ==
    \E pair \in Pairs :
    \E F \in FailSets(CallSlots(apply_bpe_iwslt(Start(fs), {}, pair[1], pair[2])), budget) :
        LET result == apply_bpe_iwslt(Start(fs), F, pair[1], pair[2])
        IN  /\ Injected(result, F)
            /\ Complete("apply_bpe_iwslt " \o IWSLT_dirname(pair[1], pair[2]), result, F)

ApplyBpeMulti30k ==
    \E F \in FailSets(CallSlots(apply_bpe_multi30k(Start(fs), {})), budget) :
        LET result == apply_bpe_multi30k(Start(fs), F)
        IN  Injected(result, F) /\ Complete("apply_bpe_multi30k", result, F)

OpenDataset ==
    \E pair \in Pairs, mode \in Modes :
        LET result == open_dataset(Start(fs), {}, pair[1], pair[2], mode)
        IN  /\ last' = Some(Outcome("IWSLTDataset " \o IWSLT_dirname(pair[1], pair[2])
                                        \o " " \o mode, result))
            /\ UNCHANGED <<fs, done, invoked, budget>>

InitPipe ==
    /\ fs = {}
    /\ last = None
    /\ done = {}
    /\ invoked = {}
    /\ budget = MaxFail
    /\ InitBatchVars
    /\ InitDataVars

NextPipe ==
    \/ PrepareIWSLT /\ UNCHANGED batchVars /\ UNCHANGED dataVars
    \/ PrepareMulti30k /\ UNCHANGED batchVars /\ UNCHANGED dataVars
    \/ LearnBpe /\ UNCHANGED batchVars /\ UNCHANGED dataVars
    \/ ApplyBpeIwslt /\ UNCHANGED batchVars /\ UNCHANGED dataVars
    \/ ApplyBpeMulti30k /\ UNCHANGED batchVars /\ UNCHANGED dataVars
    \/ OpenDataset /\ UNCHANGED batchVars /\ UNCHANGED dataVars

SpecPipe == InitPipe /\ [][NextPipe]_vars

(***************************************************************************)
(* Claims about preprocessing (SpecPipe).                                  *)
(***************************************************************************)
PreOps == {"prepare_IWSLT", "prepare_multi30k", "learn_bpe", "apply_bpe_multi30k"}
          \cup {"apply_bpe_iwslt " \o IWSLT_dirname(p[1], p[2]) : p \in Pairs}

Corpora == {IWSLT_dirname(p[1], p[2]) : p \in Pairs} \cup {"multi30k"}

OutFiles(jobs) == {jobs[k].out_file : k \in 1..Len(jobs)}

\* What an operation checks before it works: every stage directory of a
\* prepare operation, bpe.codes for learn_bpe, the BPE directory otherwise.
TargetPresent(op, f) ==
    CASE op = "prepare_IWSLT" ->
            \A p \in Pairs : /\ IWSLT_corpus_dir(p[1], p[2]) \in f
                             /\ IWSLT_token_dir(p[1], p[2]) \in f
      [] op = "prepare_multi30k" -> multi30k_corpus_dir \in f /\ multi30k_tok_dir \in f
      [] op = "learn_bpe" -> bpe_codes \in f
      [] op = "apply_bpe_multi30k" -> multi30k_bpe_dir \in f
      [] OTHER -> \E p \in Pairs : /\ op = "apply_bpe_iwslt " \o IWSLT_dirname(p[1], p[2])
                                   /\ IWSLT_bpe_dir(p[1], p[2]) \in f

\* C3: a preprocessing operation invoked again with its target directory or
\* file already present creates, changes and deletes nothing and invokes no
\* tool: the filesystem after the invocation is the one before it.
C3_SecondInvocationNoEffect ==
    [][\A op \in PreOps :
          (last' # None /\ last'[1].op = op /\ op \in invoked /\ TargetPresent(op, fs))
              => (fs' = fs /\ last'[1].calls = <<>> /\ last'[1].ret = "returned")]_vars

\* C3 witness: each of two operations has been invoked again on its finished
\* output (here the last one, which skipped both of its stages).
C3_Witness ==
    /\ last # None
    /\ last[1].op = "prepare_multi30k"
    /\ last[1].second
    /\ ~last[1].changed
    /\ last[1].calls = <<>>
    /\ TargetPresent("prepare_multi30k", fs)
    /\ TargetPresent("learn_bpe", fs)

StepsBefore(calls, k) == done \cup {calls[j].loop : j \in 1..(k - 1)}

TokenizeAfterDownload(calls) ==
    \A k \in 1..Len(calls), c \in Corpora :
        calls[k].loop = "tokenize " \o c => ("download " \o c) \in StepsBefore(calls, k)

LearnAfterTokenize(calls) ==
    \A k \in 1..Len(calls) :
        calls[k].tool = "learn_joint_bpe" =>
            /\ {"tokenize fr-en", "tokenize en-de"} \subseteq StepsBefore(calls, k)
            /\ calls[k].reads \subseteq fs

ApplyAfterLearn(calls) ==
    \A k \in 1..Len(calls) :
        calls[k].tool = "apply_bpe" => "learn" \in StepsBefore(calls, k)

\* C6 as stated: in every execution no tokenize step of a corpus runs before
\* the download step of that corpus, the BPE learner does not run before the
\* training corpora it reads were tokenized, and no BPE application runs
\* before BPE learning.
C6_FixedStageOrder ==
    [][last' # None =>
          /\ TokenizeAfterDownload(last'[1].calls)
          /\ LearnAfterTokenize(last'[1].calls)
          /\ ApplyAfterLearn(last'[1].calls)]_vars

\* C6 as amended: no tokenize step of a corpus runs before the download
\* step of that corpus, and the BPE application script does not run before
\* the BPE learner has run (learn_bpe itself runs the learner whenever
\* bpe.codes is absent, tokenized corpora or not).
C6_OrderTheCodeEnforces ==
    [][last' # None =>
          /\ TokenizeAfterDownload(last'[1].calls)
          /\ ApplyAfterLearn(last'[1].calls)]_vars

\* C6 witness: BPE was applied to a tokenized, downloaded corpus after the
\* learner had run.
C6_Witness ==
    /\ last # None
    /\ last[1].op = "apply_bpe_iwslt fr-en"
    /\ \E k \in 1..Len(last[1].calls) :
          last[1].calls[k].tool = "apply_bpe" /\ last[1].calls[k].ok
    /\ {"download fr-en", "tokenize fr-en", "learn"} \subseteq done

\* Every later item of the failed call's loop was processed.
RemainingProcessed(calls, k) ==
    \A p \in (calls[k].pos + 1)..calls[k].of :
        \E j \in (k + 1)..Len(calls) : calls[j].loop = calls[k].loop /\ calls[j].pos = p

ToolFailed(e) == e.error \in {"exit status", "exception"}

\* C7 as stated: the failure of any invoked tool is unobserved: the operation
\* does not raise, processes every remaining file of its loop and returns
\* normally.
C7_ToolFailureUnobserved ==
    (last # None /\ last[1].op \in PreOps) =>
        \A k \in 1..Len(last[1].calls) :
            ToolFailed(last[1].calls[k]) =>
                /\ last[1].ret = "returned"
                /\ RemainingProcessed(last[1].calls, k)

\* C7 as amended: the exit status of a tool run as a subprocess (wget,
\* gunzip, the BPE learn and apply scripts) is not read: after a failure the
\* loop still makes every remaining call (gunzip after a failed wget too),
\* and the operation raises only if a later in-process step raises; a
\* failure of the in-process tokenizer or corpus downloader is an exception
\* that ends the operation at once.
C7_ExitStatusUnobserved ==
    (last # None /\ last[1].op \in PreOps) =>
        LET calls == last[1].calls
        IN  \A k \in 1..Len(calls) :
               /\ calls[k].error = "exit status" =>
                     /\ RemainingProcessed(calls, k)
                     /\ calls[k].tool = "wget" =>
                           /\ k < Len(calls)
                           /\ calls[k + 1].tool = "gunzip"
                           /\ calls[k + 1].pos = calls[k].pos
                     /\ last[1].ret = "raised" =>
                           \E j \in (k + 1)..Len(calls) :
                               calls[j].error \in {"exception", "FileNotFoundError"}
               /\ calls[k].error = "exception" =>
                     /\ last[1].ret = "raised"
                     /\ k = Len(calls)

\* C7 witness: the first wget of prepare_multi30k failed and the download
\* loop still made all its calls.
C7_Witness ==
    /\ last # None
    /\ last[1].op = "prepare_multi30k"
    /\ Len(last[1].calls) >= 2 * Len(multi30k_prefixs) * Len(multi30k_langs)
    /\ last[1].calls[1].tool = "wget"
    /\ last[1].calls[1].error = "exit status"

StageOutputs ==
    {[dir |-> IWSLT_token_dir(p[1], p[2]),
      files |-> OutFiles(tokenize_IWSLT_jobs(p[1], p[2]))] : p \in Pairs}
    \cup {[dir |-> IWSLT_bpe_dir(p[1], p[2]),
           files |-> OutFiles(apply_bpe_iwslt_jobs(p[1], p[2]))] : p \in Pairs}
    \cup {[dir |-> multi30k_tok_dir, files |-> OutFiles(tokenize_multi30k_jobs)],
          [dir |-> multi30k_bpe_dir, files |-> OutFiles(apply_bpe_multi30k_jobs)]}

\* C8: with the tools succeeding, between operations every stage output
\* directory that exists holds every output file of its stage; a failed
\* operation leaves no output directory behind.
C8_StageDirectoryComplete ==
    budget = MaxFail =>
        \A s \in StageOutputs : s.dir \in fs => s.files \subseteq fs

TokenizeWrites(c) ==
    IF c = "multi30k" THEN OutFiles(tokenize_multi30k_jobs)
    ELSE UNION {OutFiles(tokenize_IWSLT_jobs(p[1], p[2])) :
                   p \in {q \in Pairs : IWSLT_dirname(q[1], q[2]) = c}}

\* C10: every path a later stage reads is a path an earlier stage writes:
\* the learner's inputs are tokenizer outputs, every apply_bpe input is a
\* tokenizer output of the same corpus, every vocabulary file apply_bpe reads
\* is one the learner writes, and the two files IWSLTDataset opens are
\* outputs of apply_bpe_iwslt for the same pair.
C10_ReadsAreEarlierWrites ==
    last # None =>
        \A k \in 1..Len(last[1].calls) :
            LET e == last[1].calls[k]
            IN  /\ e.tool = "learn_joint_bpe" =>
                      e.reads \subseteq UNION {TokenizeWrites(c) : c \in Corpora \ {"multi30k"}}
                /\ e.tool = "apply_bpe" =>
                      \E c \in Corpora :
                          /\ e.loop = "apply " \o c
                          /\ \E v \in learn_vocab_files, t \in TokenizeWrites(c) :
                                e.reads = {bpe_codes, v, t}
                /\ (e.tool = "open" /\ last[1].op \notin PreOps) =>
                      \E p \in Pairs :
                          /\ e.loop = dataset_loop(p[1], p[2])
                          /\ Cardinality(e.reads) = 2
                          /\ e.reads \subseteq OutFiles(apply_bpe_iwslt_jobs(p[1], p[2]))

\* C10 witness: after the whole pipeline a dataset opened its two files, and
\* BPE had been applied to Multi30k as well.
C10_Witness ==
    /\ last # None
    /\ last[1].op = "IWSLTDataset en-de valid"
    /\ last[1].ret = "returned"
    /\ OutFiles(apply_bpe_multi30k_jobs) \subseteq fs

(***************************************************************************)
(* Claims about collation and the forward pass (SpecBatch).                *)
(***************************************************************************)
Called == fwd # None /\ out # None
Returned == Called /\ out[1].status = "returned"
LengthsGiven == Called /\ fwd[1].tgt_lengths # None

\* C1: a forward call completes normally whether or not tgt_lengths is
\* supplied, and the mask it returns is none if and only if tgt_lengths was
\* not supplied.
C1_MaskNoneIffNoLengths ==
    Called =>
        /\ out[1].status = "returned"
        /\ (out[1].outputs[3] = None) <=> (fwd[1].tgt_lengths = None)

\* C2: with tgt_lengths supplied, for tgt of shape [B, Lt] the decoder input
\* is tgt without its last column, tgt_out is tgt without its first column,
\* logprobs and tgt_out have time dimension Lt-1, and the mask has shape
\* [B, Lt-1] with mask[i,j] = 1 iff j < tgt_lengths[i] - 1.
C2_ForwardShapes ==
    (Returned /\ LengthsGiven) =>
        LET tgt == fwd[1].tgt
            tl == fwd[1].tgt_lengths[1]
            B == Len(tgt)
            Lt == Width(tgt)
            logprobs == out[1].outputs[1]
            tgt_out == out[1].outputs[2]
            mask == out[1].outputs[3][1]
        IN  /\ logprobs = <<B, Lt - 1, VocabLen>>
            /\ Len(tgt_out) = B
            /\ Len(mask) = B
            /\ Len(out[1].dec_in) = B
            /\ \A i \in 1..B :
                  /\ Len(tgt_out[i]) = Lt - 1
                  /\ Len(mask[i]) = Lt - 1
                  /\ Len(out[1].dec_in[i]) = Lt - 1
                  /\ \A j \in 1..(Lt - 1) :
                        /\ tgt_out[i][j] = tgt[i][j + 1]
                        /\ out[1].dec_in[i][j] = tgt[i][j]
                        /\ (mask[i][j] = 1) <=> (j - 1 < tl[i] - 1)
                        /\ mask[i][j] \in {0, 1}

\* C2 witness: a returned call with lengths on a target at least three wide,
\* some row masked in part.
C2_Witness ==
    /\ Returned
    /\ LengthsGiven
    /\ Width(fwd[1].tgt) >= 3
    /\ \E i \in 1..Len(fwd[1].tgt) :
          /\ out[1].outputs[3][1][i][1] = 1
          /\ out[1].outputs[3][1][i][Width(fwd[1].tgt) - 1] = 0

\* C4: a collated batch of n examples with source lengths S1..Sn and target
\* lengths T1..Tn has src of shape [n, max(Si)+1], tgt of shape [n, max(Ti)+2],
\* src_lengths[i] = Si+1 and tgt_lengths[i] = Ti+2, both within the padded
\* width; every target row starts with the BOS index, no source row holds
\* it, and every row is its tokens, then EOS, then EOS padding.
C4_CollateShapes ==
    ex # None =>
        LET e == ex[1]
            n == Len(batch)
            S == [i \in 1..n |-> Len(batch[i].src)]
            T == [i \in 1..n |-> Len(batch[i].tgt)]
            ws == MaxOf(S) + 1
            wt == MaxOf(T) + 2
            eos == stoi(EOS_WORD)
            bos == stoi(BOS_WORD)
        IN  /\ Len(e.src) = n /\ Len(e.tgt) = n
            /\ Len(e.src_lengths) = n /\ Len(e.tgt_lengths) = n
            /\ \A i \in 1..n :
                  /\ Len(e.src[i]) = ws
                  /\ Len(e.tgt[i]) = wt
                  /\ e.src_lengths[i] = S[i] + 1 /\ e.src_lengths[i] <= ws
                  /\ e.tgt_lengths[i] = T[i] + 2 /\ e.tgt_lengths[i] <= wt
                  /\ e.tgt[i][1] = bos
                  /\ \A j \in 1..ws :
                        /\ e.src[i][j] # bos
                        /\ e.src[i][j] = IF j <= S[i] THEN stoi(batch[i].src[j]) ELSE eos
                  /\ \A j \in 2..wt :
                        e.tgt[i][j] = IF j - 1 <= T[i] THEN stoi(batch[i].tgt[j - 1]) ELSE eos

\* C4 witness: a collated batch of two examples of different lengths on both
\* sides, so that both tensors hold padding.
C4_Witness ==
    /\ ex # None
    /\ Len(batch) = 2
    /\ Len(batch[1].src) # Len(batch[2].src)
    /\ Len(batch[1].tgt) # Len(batch[2].tgt)
    /\ \E i \in 1..2 : Len(batch[i].tgt) = MaxSentLen

\* C9: for a collated batch passed to forward with its tgt_lengths, in every
\* row i with Ti target tokens the mask is 1 exactly at positions 0..Ti of
\* tgt_out, which hold the Ti token indices and then the EOS index, and
\* every position where the mask is 0 holds the padding (EOS) index.
C9_MaskCoversTokensAndEos ==
    (Returned /\ LengthsGiven /\ fwd[1].collated) =>
        LET tgt_out == out[1].outputs[2]
            mask == out[1].outputs[3][1]
            eos == stoi(EOS_WORD)
        IN  \A i \in 1..Len(batch) :
               LET Ti == Len(batch[i].tgt)
               IN  /\ {j \in 1..Len(mask[i]) : mask[i][j] = 1} = 1..(Ti + 1)
                   /\ \A j \in 1..Ti : tgt_out[i][j] = stoi(batch[i].tgt[j])
                   /\ tgt_out[i][Ti + 1] = eos
                   /\ \A j \in 1..Len(mask[i]) : mask[i][j] = 0 => tgt_out[i][j] = eos
                   /\ Len(tgt_out[i]) = Len(mask[i])

\* C9 witness: such a call on a batch with a short and a long target, the
\* short row ending in masked padding.
C9_Witness ==
    /\ Returned /\ LengthsGiven /\ fwd[1].collated
    /\ Len(batch) = 2
    /\ Len(batch[1].tgt) = 0
    /\ Len(batch[2].tgt) = MaxSentLen
    /\ out[1].outputs[3][1][1][MaxSentLen + 1] = 0
    /\ out[1].outputs[3][1][2][MaxSentLen + 1] = 1

=============================================================================
